---- MODULE Spec2Model ----
(***************************************************************************)
(* Identity reconciliation (scripts/etl/reconciliation_engine.py) over a   *)
(* transactional relational store.  One step of the model is one SQL       *)
(* statement (with the Python code that follows it up to the next          *)
(* statement).  `db' is what the open transaction sees, `cdb' is what is   *)
(* committed; closing the connection or a crash discards db.               *)
(***************************************************************************)
EXTENDS Integers, Sequences, FiniteSets, TLC

(* ------------------------------ bounds --------------------------------- *)
MaxA == 2        \* AppDynamics-side rows in the catalog (app_id 1..MaxA)
MaxB == 2        \* ServiceNow-side rows in the catalog

(* ------------------------------ values --------------------------------- *)
NULL == 0                      \* SQL NULL / Python None for ids
NullName == <<0>>              \* SQL NULL / Python None for a name
AUTO_MATCH_THRESHOLD == 80
REVIEW_THRESHOLD == 50

\* characters: 1..26 are 'a'..'z', 101..126 are 'A'..'Z'
\* the names score 80 (Ab/abc), 50 (Ab/xb), 85.71 (Abcd/abc) and 33.33 (Abcd/xb)
ANames == { <<101, 2>>, <<101, 2, 3, 4>> }         \* "Ab", "Abcd"
BNames == { <<1, 2, 3>>, <<24, 2>> }               \* "abc", "xb"

ASlots == 1..MaxA
BSlots == (MaxA + 1)..(MaxA + MaxB)
MSlot == MaxA + MaxB + 1
AppIds == 1..MSlot
Tables == <<"license_usage_fact", "license_cost_fact", "chargeback_fact", "forecast_fact">>

(* --------------------------- Similarity Scorer ------------------------- *)
Lower(s) == [n \in 1..Len(s) |-> IF s[n] > 100 THEN s[n] - 100 ELSE s[n]]

RECURSIVE RunLen(_, _, _, _, _, _)
RunLen(a, b, p, q, ahi, bhi) ==
    IF p > ahi \/ q > bhi THEN 0
    ELSE IF a[p] # b[q] THEN 0
    ELSE 1 + RunLen(a, b, p + 1, q + 1, ahi, bhi)

\* longest common block of a[alo..ahi] and b[blo..bhi]; among the longest the
\* one starting earliest in a, then earliest in b: <<start in a, start in b, size>>
FindLongestMatch(a, b, alo, ahi, blo, bhi) ==
    LET pairs == (alo..ahi) \X (blo..bhi)
        size(pr) == RunLen(a, b, pr[1], pr[2], ahi, bhi)
        better(x, y) == \/ size(x) > size(y)
                        \/ size(x) = size(y) /\ x[1] < y[1]
                        \/ size(x) = size(y) /\ x[1] = y[1] /\ x[2] < y[2]
        top == CHOOSE x \in pairs : \A y \in pairs \ {x} : better(x, y)
    IN  <<top[1], top[2], size(top)>>

RECURSIVE MatchedChars(_, _, _, _, _, _)
MatchedChars(a, b, alo, ahi, blo, bhi) ==
    IF alo > ahi \/ blo > bhi THEN 0
    ELSE LET m == FindLongestMatch(a, b, alo, ahi, blo, bhi)
         IN  IF m[3] = 0 THEN 0
             ELSE m[3] + MatchedChars(a, b, alo, m[1] - 1, blo, m[2] - 1)
                       + MatchedChars(a, b, m[1] + m[3], ahi, m[2] + m[3], bhi)

Falsy(s) == s = NullName \/ s = <<>>

\* the score in hundredths of a percent (8571 is 85.71)
fuzzy_match_score(str1, str2) ==
    IF Falsy(str1) \/ Falsy(str2) THEN 0
    ELSE LET a == Lower(str1)
             b == Lower(str2)
         IN  (20000 * MatchedChars(a, b, 1, Len(a), 1, Len(b))) \div (Len(a) + Len(b))

(* ------------------------------ the store ------------------------------ *)
\* a row of applications_dim; org stands for the organisational columns
\* (owner_id, sector_id, architecture_id, h_code, support_group)
DeadRow == [live |-> FALSE, aid |-> NULL, aname |-> NullName,
            sid |-> NULL, sname |-> NullName, org |-> NULL]
ARow(id, n) == [live |-> TRUE, aid |-> id, aname |-> n,
                sid |-> NULL, sname |-> NullName, org |-> 1]
BRow(id, sys, n) == [live |-> TRUE, aid |-> NULL, aname |-> NullName,
                     sid |-> sys, sname |-> n, org |-> 10 + id]
MRow(id) == [live |-> TRUE, aid |-> id, aname |-> <<13>>,
             sid |-> id, sname |-> <<13>>, org |-> 10 + id]

Live(apps) == {id \in AppIds : apps[id].live}

UniqueIdsUnchecked(apps) == TRUE

\* the unique indexes on appd_application_id and on sn_sys_id
UniqueIds(apps) ==
    \A x, y \in Live(apps) :
        x # y => /\ (apps[x].aid # NULL => apps[x].aid # apps[y].aid)
                 /\ (apps[x].sid # NULL => apps[x].sid # apps[y].sid)

\* the fact tables' app_id foreign keys: every fact row references a live row
Referenced(facts, id) == \E t \in 1..Len(Tables) : \E r \in AppIds : facts[t][r] = id
ForeignKeysOk(apps, facts) ==
    \A t \in 1..Len(Tables) : \A r \in AppIds :
        facts[t][r] # NULL => facts[t][r] \in Live(apps)

NoMatch == [id |-> NULL, sid |-> NULL, sname |-> NullName, org |-> NULL]

VARIABLES
    db,             \* the store as the open transaction sees it
    cdb,            \* the committed store
    pc,             \* position of run_reconciliation
    appd_apps,      \* fetched unmatched AppD rows: <<app_id, name, appd id>>
    snow_services,  \* working list of unmatched ServiceNow rows
    i,              \* index of the current entry of appd_apps
    best_match, best_score,
    k,              \* index in Tables of the next re-homing UPDATE
    matches_made,
    fkImmediate,    \* the store checks the fact tables' foreign keys per statement
    db0,            \* history: the committed store before the run
    merged,         \* history: <<appd_id, snow_id>> of the merges completed in the pass
    failed          \* history: where the run raised, NoFailure otherwise

\* run_allocation (scripts/etl/allocation_engine.py)
VARIABLES
    shared_services,   \* identified shared services: <<app_id, h_code>>
    active_rules,      \* fetched active rules
    rule,              \* the rule applied to the current shared service
    total_cost,        \* of the current shared service, in cents
    sector_usage,      \* <<sector_id, usage>> of the sectors with usage rows
    active_sectors,    \* sector ids
    half_up,           \* round() takes an amount halfway between two cents up
    allocations_made,
    runs,              \* history: number of the run of the allocation engine
    written,           \* history: the amounts written by the current strategy call
    applied,           \* history: <<app_id, rule_id>> of the strategy calls of the run
    count,             \* what the last strategy call returned, NoCount when unbound
    counts             \* history: what the strategy calls of the run returned

allocvars == <<shared_services, active_rules, rule, total_cost, sector_usage,
               active_sectors, half_up, allocations_made, runs, written, applied,
               count, counts>>

\* the process of an engine, and main of scripts/etl/run_pipeline.py
VARIABLES
    returncode,        \* exit status of the engine's process, NoExit while it runs
    env,               \* what main finds: credentials, scripts on disk
    pipeline_steps,    \* the steps main has built
    results,           \* <<script, success>> of the steps run
    attempts,          \* history: <<script, outcome>> of every subprocess.run
    returned,          \* history: what the calls of run_etl_script returned
    exit_code          \* exit status of main, NoExit while it runs

pipevars == <<env, pipeline_steps, results, attempts, returned, exit_code>>

\* calls of fuzzy_match_score on two strings, in both orders
VARIABLES
    str1, str2,
    score12,           \* fuzzy_match_score(str1, str2), NoScore before the call
    score21            \* fuzzy_match_score(str2, str1), NoScore before the call

scorervars == <<str1, str2, score12, score21>>

vars == <<db, cdb, pc, appd_apps, snow_services, i, best_match, best_score, k,
          matches_made, fkImmediate, db0, merged, failed, allocvars, returncode,
          pipevars, scorervars>>
pyvars == <<appd_apps, snow_services, i, best_match, best_score, k, matches_made>>
reconvars == <<appd_apps, snow_services, best_match, best_score, matches_made,
               fkImmediate, merged>>

NoRule == [rule_id |-> NULL, distribution_method |-> "none", shared_service_code |-> NullName]

NoCount == -1

\* the allocation engine is not running
AllocIdle ==
    /\ shared_services = <<>>
    /\ active_rules = <<>>
    /\ rule = NoRule
    /\ total_cost = 0
    /\ sector_usage = <<>>
    /\ active_sectors = <<>>
    /\ half_up = FALSE
    /\ allocations_made = 0
    /\ runs = 0
    /\ written = <<>>
    /\ applied = <<>>
    /\ count = NoCount
    /\ counts = <<>>

NoExit == -1
Killed == -9               \* the status of a process ended by SIGKILL
NoEnv == [creds_valid |-> FALSE, has_servicenow |-> FALSE, forecasting |-> FALSE,
          refresh_views |-> FALSE]

NoScore == -1

\* no call of the scorer outside a pass
ScorerIdle ==
    /\ str1 = <<>>
    /\ str2 = <<>>
    /\ score12 = NoScore
    /\ score21 = NoScore

\* main of run_pipeline.py is not running
PipeIdle ==
    /\ env = NoEnv
    /\ pipeline_steps = <<>>
    /\ results = <<>>
    /\ attempts = <<>>
    /\ returned = <<>>
    /\ exit_code = NoExit

NoFailure == [kind |-> "none", at |-> "none", n |-> 0, k |-> 0, a |-> NULL, b |-> NULL]

(* ------------------------------- Init ---------------------------------- *)
\* the rows an engine deletes in a merge may lack their source id: the
\* ServiceNow rows for the current engine, the AppD rows for the earlier one
SlotRows(id, engine) ==
    IF id \in ASlots
    THEN {DeadRow} \cup {ARow(a, n) : a \in (IF engine = "backup" THEN {NULL, id} ELSE {id}),
                                     n \in ANames}
    ELSE IF id \in BSlots
         THEN {DeadRow} \cup {BRow(id, sys, n) :
                                  sys \in (IF engine = "backup" THEN {id} ELSE {NULL, id}),
                                  n \in BNames}
         ELSE {MRow(id)}

RECURSIVE CatalogsUpTo(_, _)
CatalogsUpTo(n, engine) ==
    IF n = 0 THEN {<<>>}
    ELSE {Append(c, r) : c \in CatalogsUpTo(n - 1, engine), r \in SlotRows(n, engine)}

\* app_id is a serial: the AppD-side rows and the ServiceNow-side rows that
\* exist have the lowest ids of their range
Dense(c) ==
    \A id \in (ASlots \cup BSlots) \ {MaxA, MaxA + MaxB} :
        ~c[id].live => ~c[id + 1].live

Catalogs(engine) == {c \in CatalogsUpTo(MSlot, engine) : Dense(c)}

\* every fact table holds one row (row r) for each referenced catalog row r
FactsFor(refd) == [t \in 1..Len(Tables) |-> [r \in AppIds |-> IF r \in refd THEN r ELSE NULL]]

\* the rows with usage, cost, chargeback and forecast facts: the rows that
\* carry AppD data and, when snowFacts, the ServiceNow-only rows as well
WithFacts(apps, snowFacts) ==
    {id \in Live(apps) : snowFacts \/ apps[id].aname # NullName}

InitStore(engine) ==
    /\ \E apps \in Catalogs(engine) : \E snowFacts \in BOOLEAN :
          db = [apps |-> apps, facts |-> FactsFor(WithFacts(apps, snowFacts)),
                log |-> <<>>, etl |-> "none"]
    /\ cdb = db
    /\ db0 = db
    /\ appd_apps = <<>>
    /\ snow_services = <<>>
    /\ i = 1
    /\ best_match = NoMatch
    /\ best_score = 0
    /\ k = 1
    /\ matches_made = 0
    /\ fkImmediate \in BOOLEAN
    /\ merged = <<>>
    /\ failed = NoFailure
    /\ AllocIdle
    /\ returncode = NoExit
    /\ PipeIdle
    /\ ScorerIdle

Init == InitStore("current") /\ pc = "start"

(* ------------------------- run_reconciliation -------------------------- *)
\* positions at which a statement is sent to the store
SqlPcs == {"start", "fetch", "guard", "conflict", "upd", "del", "rehome",
           "logmatch", "review", "commit", "report", "logok"}
MergePcs == {"upd", "del", "rehome", "logmatch",
             "b_upd", "b_rehome", "b_logmatch", "b_del"}
BackupPcs == {"b_fetch", "b_loop", "b_upd", "b_rehome", "b_logmatch", "b_del",
              "b_review", "b_commit", "b_report"}

CurA == appd_apps[i]

\* an exception leaves reconcile_applications / run_reconciliation
Failure(kind) ==
    [kind |-> kind, at |-> pc, n |-> i, k |-> k,
     a |-> IF pc \in MergePcs THEN CurA[1] ELSE NULL,
     b |-> IF pc \in MergePcs THEN best_match.id ELSE NULL]

Raise(kind) ==
    /\ pc' = IF pc \in BackupPcs THEN "b_finally" ELSE "except"
    /\ failed' = Failure(kind)

\* the store rejects a statement whose result breaks a unique index or,
\* when checked per statement, a foreign key
StoreAccepts(new) ==
    /\ UniqueIds(new.apps)
    /\ fkImmediate => ForeignKeysOk(new.apps, new.facts)

CommittedAfterAutocommit(new) == new

\* the connection is opened without autocommit: a statement commits nothing
CommittedAfter(new) == cdb

\* a write statement of the merge: applied, or refused by the store and raised
Execute(new, nextpc, nextk) ==
    /\ IF StoreAccepts(new)
       THEN db' = new /\ cdb' = CommittedAfter(new) /\ pc' = nextpc /\ k' = nextk
            /\ failed' = failed
       ELSE db' = db /\ cdb' = cdb /\ Raise("refused") /\ k' = k
    /\ UNCHANGED <<appd_apps, snow_services, i, best_match, best_score,
                   matches_made, fkImmediate, allocvars, db0, merged, returncode, pipevars, scorervars>>

\* connect, insert the 'running' execution-log row, commit
Start ==
    /\ pc = "start"
    /\ db' = [db EXCEPT !.etl = "running"]
    /\ cdb' = db'
    /\ pc' = "fetch"
    /\ UNCHANGED <<pyvars, fkImmediate, allocvars, db0, merged, failed, returncode, pipevars, scorervars>>

IdSeq == [n \in 1..MSlot |-> n]
IsUnmatchedAppD(apps, id) ==
    apps[id].live /\ apps[id].sid = NULL /\ apps[id].aname # NullName
IsUnmatchedSnow(apps, id) ==
    apps[id].live /\ apps[id].aid = NULL /\ apps[id].sname # NullName

SelectAppD(apps) ==
    LET ids == SelectSeq(IdSeq, LAMBDA id : IsUnmatchedAppD(apps, id))
    IN  [n \in 1..Len(ids) |-> <<ids[n], apps[ids[n]].aname, apps[ids[n]].aid>>]
SelectSnow(apps) ==
    LET ids == SelectSeq(IdSeq, LAMBDA id : IsUnmatchedSnow(apps, id))
    IN  [n \in 1..Len(ids) |-> [id |-> ids[n], sid |-> apps[ids[n]].sid,
                                sname |-> apps[ids[n]].sname, org |-> apps[ids[n]].org]]

\* the two SELECTs of unmatched rows
Fetch ==
    /\ pc = "fetch"
    /\ appd_apps' = SelectAppD(db.apps)
    /\ snow_services' = SelectSnow(db.apps)
    /\ i' = 1
    /\ pc' = "loop"
    /\ UNCHANGED <<db, cdb, best_match, best_score, k, matches_made,
                   fkImmediate, allocvars, db0, merged, failed, returncode, pipevars, scorervars>>

BetterOrEqual(score, bs) == score >= bs

\* if score > best_score
Better(score, bs) == score > bs

\* the inner loop over snow_services: <<best_match, best_score>>
RECURSIVE Scan(_, _, _, _, _)
Scan(name, services, n, bm, bs) ==
    IF n > Len(services) THEN <<bm, bs>>
    ELSE LET score == fuzzy_match_score(name, services[n].sname)
         IN  IF Better(score, bs)
             THEN Scan(name, services, n + 1, services[n], score)
             ELSE Scan(name, services, n + 1, bm, bs)

ClassifyAboveOnly(score) ==
    IF score > AUTO_MATCH_THRESHOLD * 100 THEN "auto_match"
    ELSE IF score > REVIEW_THRESHOLD * 100 THEN "needs_review"
    ELSE "no_match"

\* if best_score >= 80 ... elif best_score >= 50 ... (else nothing)
Classify(score) ==
    IF score >= AUTO_MATCH_THRESHOLD * 100 THEN "auto_match"
    ELSE IF score >= REVIEW_THRESHOLD * 100 THEN "needs_review"
    ELSE "no_match"

\* one iteration of the outer loop up to its first statement
Match ==
    /\ pc = "loop"
    /\ i <= Len(appd_apps)
    /\ LET r == Scan(CurA[2], snow_services, 1, NoMatch, 0)
           c == Classify(r[2])
       IN  /\ best_match' = r[1]
           /\ best_score' = r[2]
           /\ pc' = IF c = "auto_match" THEN "guard"
                    ELSE IF c = "needs_review" THEN "review" ELSE "loop"
           /\ i' = IF c = "no_match" THEN i + 1 ELSE i
    /\ UNCHANGED <<db, cdb, appd_apps, snow_services, k, matches_made,
                   fkImmediate, allocvars, db0, merged, failed, returncode, pipevars, scorervars>>

\* WHERE sn_sys_id = %s AND app_id != %s (a NULL sn_sys_id equals nothing)
Existing(apps, snow_sys_id, appd_id) ==
    {id \in Live(apps) : snow_sys_id # NULL /\ apps[id].sid = snow_sys_id /\ id # appd_id}

Guard ==
    /\ pc = "guard"
    /\ pc' = IF Existing(db.apps, best_match.sid, CurA[1]) # {} THEN "conflict" ELSE "upd"
    /\ UNCHANGED <<db, cdb, pyvars, fkImmediate, allocvars, db0, merged, failed, returncode, pipevars, scorervars>>

LogRec(a, b, score, status, resolved) ==
    [a |-> a, b |-> b, score |-> score, status |-> status, resolved |-> resolved]

ConflictDropsCandidate ==
    /\ pc = "conflict"
    /\ db' = [db EXCEPT !.log = Append(@, LogRec(CurA[2], best_match.sname, best_score, "conflict", NULL))]
    /\ snow_services' = SelectSeq(snow_services, LAMBDA s : s.id # best_match.id)
    /\ i' = i + 1
    /\ pc' = "loop"
    /\ UNCHANGED <<cdb, appd_apps, best_match, best_score, k,
                   matches_made, fkImmediate, allocvars, db0, merged, failed, returncode, pipevars, scorervars>>

\* INSERT ... 'conflict'; continue
Conflict ==
    /\ pc = "conflict"
    /\ db' = [db EXCEPT !.log = Append(@, LogRec(CurA[2], best_match.sname, best_score, "conflict", NULL))]
    /\ i' = i + 1
    /\ pc' = "loop"
    /\ UNCHANGED <<cdb, appd_apps, snow_services, best_match, best_score, k,
                   matches_made, fkImmediate, allocvars, db0, merged, failed, returncode, pipevars, scorervars>>

UpdatedAppsEveryRow(apps, appd_id, m) ==
    [id \in AppIds |->
        IF apps[id].live
        THEN [apps[id] EXCEPT !.sid = m.sid, !.sname = m.sname, !.org = m.org]
        ELSE apps[id]]

\* UPDATE applications_dim SET sn_sys_id = ..., ... WHERE app_id = appd_id
UpdatedApps(apps, appd_id, m) ==
    [id \in AppIds |->
        IF id = appd_id /\ apps[id].live
        THEN [apps[id] EXCEPT !.sid = m.sid, !.sname = m.sname, !.org = m.org]
        ELSE apps[id]]

UpdateApp ==
    /\ pc = "upd"
    /\ Execute([db EXCEPT !.apps = UpdatedApps(@, CurA[1], best_match)], "del", k)

DeletedAppsNone(apps, snow_id) == apps

\* DELETE FROM applications_dim WHERE app_id = snow_id
DeletedApps(apps, snow_id) == [id \in AppIds |-> IF id = snow_id THEN DeadRow ELSE apps[id]]

DeleteDonor ==
    /\ pc = "del"
    /\ Execute([db EXCEPT !.apps = DeletedApps(@, best_match.id)], "rehome", 1)

RehomedSkipsForecast(facts, t, from, to) ==
    IF Tables[t] = "forecast_fact" THEN facts
    ELSE [facts EXCEPT ![t] = [r \in AppIds |-> IF @[r] = from THEN to ELSE @[r]]]

\* UPDATE <fact table> SET app_id = to WHERE app_id = from
Rehomed(facts, t, from, to) ==
    [facts EXCEPT ![t] = [r \in AppIds |-> IF @[r] = from THEN to ELSE @[r]]]

Rehome ==
    /\ pc = "rehome"
    /\ Execute([db EXCEPT !.facts = Rehomed(@, k, best_match.id, CurA[1])],
               IF k = Len(Tables) THEN "logmatch" ELSE "rehome",
               IF k = Len(Tables) THEN 1 ELSE k + 1)

RemainingKeepsAll(services, snow_id) == services

\* the working list without the consumed ServiceNow row
Remaining(services, snow_id) == SelectSeq(services, LAMBDA s : s.id # snow_id)

\* INSERT ... 'auto_matched'; matches_made += 1; drop the candidate
LogMatch ==
    /\ pc = "logmatch"
    /\ db' = [db EXCEPT !.log = Append(@, LogRec(CurA[2], best_match.sname, best_score,
                                                 "auto_matched", CurA[1]))]
    /\ matches_made' = matches_made + 1
    /\ snow_services' = Remaining(snow_services, best_match.id)
    /\ merged' = Append(merged, <<CurA[1], best_match.id>>)
    /\ i' = i + 1
    /\ pc' = "loop"
    /\ UNCHANGED <<cdb, appd_apps, best_match, best_score, k, fkImmediate, allocvars, db0, failed, returncode, pipevars, scorervars>>

\* INSERT ... 'needs_review'
Review ==
    /\ pc = "review"
    /\ db' = [db EXCEPT !.log = Append(@, LogRec(CurA[2], best_match.sname, best_score,
                                                 "needs_review", NULL))]
    /\ i' = i + 1
    /\ pc' = "loop"
    /\ UNCHANGED <<cdb, appd_apps, snow_services, best_match, best_score, k,
                   matches_made, fkImmediate, allocvars, db0, merged, failed, returncode, pipevars, scorervars>>

LoopEnd ==
    /\ pc = "loop"
    /\ i > Len(appd_apps)
    /\ pc' = "commit"
    /\ UNCHANGED <<db, cdb, pyvars, fkImmediate, allocvars, db0, merged, failed, returncode, pipevars, scorervars>>

\* conn.commit() at the end of reconcile_applications
Commit ==
    /\ pc = "commit"
    /\ cdb' = db
    /\ pc' = "report"
    /\ UNCHANGED <<db, pyvars, fkImmediate, allocvars, db0, merged, failed, returncode, pipevars, scorervars>>

\* x / y * 100 in hundredths of a percent
Rate(x, y) == (10000 * x) \div y

\* what generate_reconciliation_report prints and returns for a catalog
generate_reconciliation_report(apps) ==
    LET matched == Cardinality({id \in Live(apps) : apps[id].aid # NULL /\ apps[id].sid # NULL})
        appd_only == Cardinality({id \in Live(apps) : apps[id].aid # NULL /\ apps[id].sid = NULL})
        snow_only == Cardinality({id \in Live(apps) : apps[id].aid = NULL /\ apps[id].sid # NULL})
        total == Cardinality(Live(apps))
        total_appd_apps == Cardinality({id \in Live(apps) : apps[id].aid # NULL})
    IN  [matched |-> matched, appd_only |-> appd_only, snow_only |-> snow_only,
         total |-> total,
         match_rate |-> IF total > 0 THEN Rate(matched, total) ELSE 0,
         appd_match_rate |-> IF total_appd_apps > 0 THEN Rate(matched, total_appd_apps)
                             ELSE NULL]

\* generate_reconciliation_report only reads
Report ==
    /\ pc = "report"
    /\ pc' = "logok"
    /\ UNCHANGED <<db, cdb, pyvars, fkImmediate, allocvars, db0, merged, failed, returncode, pipevars, scorervars>>

\* UPDATE etl_execution_log SET status = 'success'; commit; close
LogSuccess ==
    /\ pc = "logok"
    /\ db' = [db EXCEPT !.etl = "success"]
    /\ cdb' = db'
    /\ pc' = "closed"
    /\ returncode' = 0
    /\ UNCHANGED <<pyvars, fkImmediate, allocvars, db0, merged, failed, pipevars, scorervars>>

\* a statement fails in the store (lost connection, lock or statement
\* timeout, a constraint of a fact table); the transaction is aborted
StmtFail ==
    /\ pc \in SqlPcs
    /\ Raise("raise")
    /\ UNCHANGED <<db, cdb, pyvars, fkImmediate, allocvars, db0, merged, returncode, pipevars, scorervars>>

HandlerCommitsWork ==
    IF cdb.etl = "running" THEN {[db EXCEPT !.etl = "failed"]} ELSE {cdb}

\* except Exception: the UPDATE to 'failed' runs on the same connection; it is
\* refused while the transaction is aborted, and the refusal is swallowed.
\* Only a commit that failed has ended the transaction, so the UPDATE may
\* then go through.  finally: conn.close() drops what is uncommitted.
HandlerOutcomes ==
    IF cdb.etl = "running" /\ failed.at = "commit"
    THEN {cdb, [cdb EXCEPT !.etl = "failed"]}
    ELSE {cdb}

ExceptHandler ==
    /\ pc = "except"
    /\ \E out \in HandlerOutcomes : cdb' = out
    /\ db' = cdb'
    /\ pc' = "closed"
    /\ returncode' = 0
    /\ UNCHANGED <<pyvars, fkImmediate, allocvars, db0, merged, failed, pipevars, scorervars>>

\* the process dies; the store drops the open transaction
Crash ==
    /\ pc \notin {"closed", "crashed"}
    /\ pc' = "crashed"
    /\ db' = cdb
    /\ failed' = Failure("crash")
    /\ returncode' = Killed
    /\ UNCHANGED <<cdb, pyvars, fkImmediate, allocvars, db0, merged, pipevars, scorervars>>

Next ==
    \/ Start \/ Fetch \/ Match \/ Guard \/ Conflict \/ UpdateApp \/ DeleteDonor
    \/ Rehome \/ LogMatch \/ Review \/ LoopEnd \/ Commit \/ Report \/ LogSuccess
    \/ StmtFail \/ ExceptHandler \/ Crash

Spec == Init /\ [][Next]_vars

(* ---------- the earlier reconcile_applications (backup_20251106) -------- *)
\* It merges the other way round: the ServiceNow row survives and takes the
\* AppD columns, the AppD row's fact rows move to it, the AppD row is deleted.
BackupSqlPcs == BackupPcs \ {"b_loop"}

BFetch ==
    /\ pc = "b_fetch"
    /\ appd_apps' = SelectAppD(db.apps)
    /\ snow_services' = SelectSnow(db.apps)
    /\ i' = 1
    /\ pc' = "b_loop"
    /\ UNCHANGED <<db, cdb, best_match, best_score, k, matches_made,
                   fkImmediate, allocvars, db0, merged, failed, returncode, pipevars, scorervars>>

BMatch ==
    /\ pc = "b_loop"
    /\ i <= Len(appd_apps)
    /\ LET r == Scan(CurA[2], snow_services, 1, NoMatch, 0)
           c == Classify(r[2])
       IN  /\ best_match' = r[1]
           /\ best_score' = r[2]
           /\ pc' = IF c = "auto_match" THEN "b_upd"
                    ELSE IF c = "needs_review" THEN "b_review" ELSE "b_loop"
           /\ i' = IF c = "no_match" THEN i + 1 ELSE i
    /\ UNCHANGED <<db, cdb, appd_apps, snow_services, k, matches_made,
                   fkImmediate, allocvars, db0, merged, failed, returncode, pipevars, scorervars>>

\* UPDATE applications_dim SET appd_application_id = (SELECT ... app_id = appd_id),
\*        appd_application_name = (SELECT ...) WHERE app_id = snow_id
BUpdatedApps(apps, appd_id, snow_id) ==
    [id \in AppIds |->
        IF id = snow_id /\ apps[id].live
        THEN [apps[id] EXCEPT !.aid = IF apps[appd_id].live THEN apps[appd_id].aid ELSE NULL,
                              !.aname = IF apps[appd_id].live THEN apps[appd_id].aname
                                        ELSE NullName]
        ELSE apps[id]]

BUpdateSnow ==
    /\ pc = "b_upd"
    /\ Execute([db EXCEPT !.apps = BUpdatedApps(@, CurA[1], best_match.id)], "b_rehome", 1)

BRehome ==
    /\ pc = "b_rehome"
    /\ Execute([db EXCEPT !.facts = Rehomed(@, k, CurA[1], best_match.id)],
               IF k = Len(Tables) THEN "b_logmatch" ELSE "b_rehome",
               IF k = Len(Tables) THEN 1 ELSE k + 1)

BLogMatch ==
    /\ pc = "b_logmatch"
    /\ db' = [db EXCEPT !.log = Append(@, LogRec(CurA[2], best_match.sname, best_score,
                                                 "auto_matched", best_match.id))]
    /\ pc' = "b_del"
    /\ UNCHANGED <<cdb, pyvars, fkImmediate, allocvars, db0, merged, failed, returncode, pipevars, scorervars>>

\* DELETE the AppD row; matches_made += 1; drop the candidate
BDeleteDonor ==
    /\ pc = "b_del"
    /\ LET new == [db EXCEPT !.apps = DeletedApps(@, CurA[1])]
       IN  IF StoreAccepts(new)
           THEN /\ db' = new
                /\ matches_made' = matches_made + 1
                /\ snow_services' = Remaining(snow_services, best_match.id)
                /\ merged' = Append(merged, <<best_match.id, CurA[1]>>)
                /\ i' = i + 1
                /\ pc' = "b_loop"
                /\ failed' = failed
           ELSE /\ Raise("refused")
                /\ UNCHANGED <<db, matches_made, snow_services, merged, i>>
    /\ UNCHANGED <<cdb, appd_apps, best_match, best_score, k, fkImmediate, allocvars, db0, returncode, pipevars, scorervars>>

BReview ==
    /\ pc = "b_review"
    /\ db' = [db EXCEPT !.log = Append(@, LogRec(CurA[2], best_match.sname, best_score,
                                                 "needs_review", NULL))]
    /\ i' = i + 1
    /\ pc' = "b_loop"
    /\ UNCHANGED <<cdb, appd_apps, snow_services, best_match, best_score, k,
                   matches_made, fkImmediate, allocvars, db0, merged, failed, returncode, pipevars, scorervars>>

BLoopEnd ==
    /\ pc = "b_loop"
    /\ i > Len(appd_apps)
    /\ pc' = "b_commit"
    /\ UNCHANGED <<db, cdb, pyvars, fkImmediate, allocvars, db0, merged, failed, returncode, pipevars, scorervars>>

BCommit ==
    /\ pc = "b_commit"
    /\ cdb' = db
    /\ pc' = "b_report"
    /\ UNCHANGED <<db, pyvars, fkImmediate, allocvars, db0, merged, failed, returncode, pipevars, scorervars>>

\* the report, then finally: conn.close()
BReport ==
    /\ pc = "b_report"
    /\ pc' = "closed"
    /\ returncode' = 0
    /\ UNCHANGED <<db, cdb, pyvars, fkImmediate, allocvars, db0, merged, failed, pipevars, scorervars>>

BStmtFail ==
    /\ pc \in BackupSqlPcs
    /\ Raise("raise")
    /\ UNCHANGED <<db, cdb, pyvars, fkImmediate, allocvars, db0, merged, returncode, pipevars, scorervars>>

\* no handler: the exception passes through finally: conn.close() and ends
\* the process with status 1
BFinally ==
    /\ pc = "b_finally"
    /\ db' = cdb
    /\ pc' = "closed"
    /\ returncode' = 1
    /\ UNCHANGED <<cdb, pyvars, fkImmediate, allocvars, db0, merged, failed, pipevars, scorervars>>

InitBackup == InitStore("backup") /\ pc = "b_fetch"

NextBackup ==
    \/ BFetch \/ BMatch \/ BUpdateSnow \/ BRehome \/ BLogMatch \/ BDeleteDonor
    \/ BReview \/ BLoopEnd \/ BCommit \/ BReport \/ BStmtFail \/ BFinally \/ Crash

SpecBackup == InitBackup /\ [][NextBackup]_vars

\* either version of the engine over the same store
InitBoth == Init \/ InitBackup

NextBoth ==
    \/ Start \/ Fetch \/ Match \/ Guard \/ Conflict \/ UpdateApp \/ DeleteDonor
    \/ Rehome \/ LogMatch \/ Review \/ LoopEnd \/ Commit \/ Report \/ LogSuccess
    \/ StmtFail \/ ExceptHandler \/ Crash
    \/ BFetch \/ BMatch \/ BUpdateSnow \/ BRehome \/ BLogMatch \/ BDeleteDonor
    \/ BReview \/ BLoopEnd \/ BCommit \/ BReport \/ BStmtFail \/ BFinally

SpecBoth == InitBoth /\ [][NextBoth]_vars

(* ----------------- the Candidate Matcher on richer names ---------------- *)
\* One AppD row at a time against the working list, with names that tie
\* (Ab/abc and Ab/abx score 80, ca/abc and ca/abx 40), that share nothing
\* (ca/xb scores 0) and that are empty.
MatcherANames == { <<101, 2>>, <<3, 1>>, <<>> }              \* "Ab", "ca", ""
MatcherBNames == { <<1, 2, 3>>, <<1, 2, 24>>, <<24, 2>>, <<>> }   \* "abc", "abx", "xb", ""

MatcherSlotRows(id) ==
    IF id \in ASlots THEN {DeadRow} \cup {ARow(id, n) : n \in MatcherANames}
    ELSE IF id \in BSlots THEN {DeadRow} \cup {BRow(id, id, n) : n \in MatcherBNames}
    ELSE {MRow(id)}

RECURSIVE MatcherCatalogsUpTo(_)
MatcherCatalogsUpTo(n) ==
    IF n = 0 THEN {<<>>}
    ELSE {Append(c, r) : c \in MatcherCatalogsUpTo(n - 1), r \in MatcherSlotRows(n)}

\* the pass after its two SELECTs, before the first entity
InitMatcher ==
    /\ \E apps \in {c \in MatcherCatalogsUpTo(MSlot) : Dense(c)} :
          /\ db = [apps |-> apps, facts |-> FactsFor({}), log |-> <<>>, etl |-> "running"]
          /\ appd_apps = SelectAppD(apps)
          /\ snow_services = SelectSnow(apps)
    /\ cdb = db
    /\ db0 = db
    /\ pc = "loop"
    /\ i = 1
    /\ best_match = NoMatch
    /\ best_score = 0
    /\ k = 1
    /\ matches_made = 0
    /\ fkImmediate = TRUE
    /\ merged = <<>>
    /\ failed = NoFailure
    /\ AllocIdle
    /\ returncode = NoExit
    /\ PipeIdle
    /\ ScorerIdle

NextMatcher == Match

SpecMatcher == InitMatcher /\ [][NextMatcher]_vars

(* ------------------- the Similarity Scorer on its own ------------------- *)
\* strings of 'a', 'A', 'b', 'c' up to MaxLen characters, and None
MaxLen == 3

Letters == {1, 101, 2, 3}

RECURSIVE StringsUpTo(_)
StringsUpTo(n) ==
    IF n = 0 THEN {<<>>}
    ELSE LET shorter == StringsUpTo(n - 1)
         IN  shorter \cup {Append(s, c) : s \in {t \in shorter : Len(t) = n - 1},
                                          c \in Letters}

Strings == StringsUpTo(MaxLen) \cup {NullName}

\* no engine is running
EnginesIdle ==
    /\ db = [apps |-> <<>>, facts |-> FactsFor({}), log |-> <<>>, etl |-> "none"]
    /\ cdb = db
    /\ db0 = db
    /\ appd_apps = <<>>
    /\ snow_services = <<>>
    /\ best_match = NoMatch
    /\ best_score = 0
    /\ matches_made = 0
    /\ fkImmediate = TRUE
    /\ merged = <<>>
    /\ failed = NoFailure
    /\ AllocIdle
    /\ returncode = NoExit

InitScorer ==
    /\ str1 \in Strings
    /\ str2 \in Strings
    /\ score12 = NoScore
    /\ score21 = NoScore
    /\ pc = "idle"
    /\ i = 1
    /\ k = 1
    /\ EnginesIdle
    /\ PipeIdle

\* fuzzy_match_score(str1, str2)
ScoreForward ==
    /\ score12 = NoScore
    /\ score12' = fuzzy_match_score(str1, str2)
    /\ UNCHANGED <<db, cdb, pc, pyvars, fkImmediate, db0, merged, failed, allocvars,
                   returncode, pipevars, str1, str2, score21>>

\* fuzzy_match_score(str2, str1)
ScoreBackward ==
    /\ score21 = NoScore
    /\ score21' = fuzzy_match_score(str2, str1)
    /\ UNCHANGED <<db, cdb, pc, pyvars, fkImmediate, db0, merged, failed, allocvars,
                   returncode, pipevars, str1, str2, score12>>

NextScorer == ScoreForward \/ ScoreBackward

SpecScorer == InitScorer /\ [][NextScorer]_vars

(* --------- run_allocation (scripts/etl/allocation_engine.py) ----------- *)
\* One period (month_start of the run's month).  Amounts are in cents.  The
\* shared services live in one sector of their own; the consumer sectors are
\* 1..MaxSectors.  In this part `db' and `cdb' hold the tables the engine
\* reads and writes.
MaxSectors == 2

Sectors == 1..MaxSectors
SharedApps == {1, 2}
Runs == {1, 2}
TotalCosts == {0, 101}             \* SUM(usd_cost) of a shared service: none, $1.01
Usages == {0, 1, 2}                \* SUM(units_consumed) of a sector
NoRows == -1                       \* the sector has no usage row in the month

\* 'A'..'Z' are 101..126, '_' is 200
PLATFORM == <<116, 112, 101, 120, 106, 115, 118, 113>>
GLOBAL_IT == <<107, 112, 115, 102, 101, 112, 200, 109, 120>>
SHARED_SVC == <<119, 108, 101, 118, 105, 104, 200, 119, 122, 103>>
SHARED == <<119, 108, 101, 118, 105, 104>>
HCodes == {PLATFORM, GLOBAL_IT, SHARED_SVC, SHARED_SVC \o <<200>> \o PLATFORM,
           SHARED, NullName}

\* the rows seed_allocation_rules inserts, in its order
SeedRules ==
    << [rule_name |-> "Platform Services - Proportional",
        distribution_method |-> "proportional_usage", shared_service_code |-> PLATFORM],
       [rule_name |-> "Global IT - Equal Split",
        distribution_method |-> "equal_split", shared_service_code |-> GLOBAL_IT],
       [rule_name |-> "Shared Services - Custom Formula",
        distribution_method |-> "custom_formula", shared_service_code |-> SHARED_SVC] >>

NoRecord == [present |-> FALSE, usd_amount |-> 0, chargeback_cycle |-> "none"]
NoApp == [live |-> FALSE, h_code |-> NullName, cost |-> 0]
SharedApp(h, c) == [live |-> TRUE, h_code |-> h, cost |-> c]

\* a consumer sector: whether applications_dim has rows of it, and the sum of
\* its license_usage_fact rows of the month
SectorStates ==
    {[apps |-> FALSE, usage |-> NoRows], [apps |-> TRUE, usage |-> NoRows]}
        \cup {[apps |-> TRUE, usage |-> u] : u \in Usages}

\* sector_id of the rows of the shared services: none, consumer sector 1, or
\* a sector that holds the shared services only
OtherSector == MaxSectors + 1
OwnSectors == {NULL, 1, OtherSector}

\* COALESCE(a.sector_id, 1): the sector of the 'direct' row of an application
DirectSector(own) == IF own = NULL THEN 1 ELSE own

\* a 'direct' row of chargeback_calculation.py for shared service 1 under
\* sector 1: its own sector, or the one it belonged to when the row was written
DirectRow == [present |-> TRUE, usd_amount |-> 7, chargeback_cycle |-> "direct"]

\* the store before the first run: the rules table is one of tables, the
\* sector of the shared services one of owns
InitAllocOver(tables, owns, directs) ==
    /\ \E h1 \in HCodes, c1 \in TotalCosts,
          app2 \in {NoApp, SharedApp(GLOBAL_IT, 101), SharedApp(NullName, 101)},
          sectors \in [Sectors -> SectorStates], direct \in directs,
          own \in owns, rules \in tables :
          /\ own \in Sectors => sectors[own].apps
          /\ db = [shared |-> [a \in SharedApps |-> IF a = 1 THEN SharedApp(h1, c1) ELSE app2],
                shared_sector |-> own,
                sectors |-> sectors,
                allocation_rules |-> rules,
                chargeback_fact |->
                    [a \in SharedApps |-> [s \in Sectors |->
                        IF direct /\ a = 1 /\ s = 1 THEN DirectRow ELSE NoRecord]],
                etl |-> "none"]
    /\ cdb = db
    /\ db0 = db
    /\ pc = "a_start"
    /\ i = 1
    /\ k = 1
    /\ shared_services = <<>>
    /\ active_rules = <<>>
    /\ rule = NoRule
    /\ total_cost = 0
    /\ sector_usage = <<>>
    /\ active_sectors = <<>>
    /\ half_up = FALSE
    /\ allocations_made = 0
    /\ runs = 1
    /\ written = <<>>
    /\ applied = <<>>
    /\ count = NoCount
    /\ counts = <<>>
    /\ appd_apps = <<>>
    /\ snow_services = <<>>
    /\ best_match = NoMatch
    /\ best_score = 0
    /\ matches_made = 0
    /\ fkImmediate = TRUE
    /\ merged = <<>>
    /\ failed = NoFailure
    /\ returncode = NoExit
    /\ PipeIdle
    /\ ScorerIdle

\* the rules table is empty before the engine seeds it
InitAlloc == InitAllocOver({<<>>}, OwnSectors, BOOLEAN)

\* connect, insert the 'running' execution-log row, commit
AStart ==
    /\ pc = "a_start"
    /\ db' = [db EXCEPT !.etl = "running"]
    /\ cdb' = db'
    /\ pc' = "a_prepare"
    /\ allocations_made' = 0
    /\ applied' = <<>>
    /\ count' = NoCount
    /\ counts' = <<>>
    /\ UNCHANGED <<i, k, shared_services, active_rules, rule, total_cost, sector_usage,
                   active_sectors, half_up, runs, written, reconvars, db0, failed, returncode, pipevars, scorervars>>

\* INSERT ... ON CONFLICT DO NOTHING for each seed rule: a rule whose name the
\* table holds is not inserted again; rule_id is the position in the table
seed_allocation_rules(rules) ==
    LET missing == SelectSeq(SeedRules,
                       LAMBDA r : \A n \in 1..Len(rules) : rules[n].rule_name # r.rule_name)
        all == rules \o [n \in 1..Len(missing) |->
                            [rule_id |-> NULL, rule_name |-> missing[n].rule_name,
                             distribution_method |-> missing[n].distribution_method,
                             shared_service_code |-> missing[n].shared_service_code]]
    IN  [n \in 1..Len(all) |-> [all[n] EXCEPT !.rule_id = n]]

AppSeq == <<1, 2>>

\* service_code in h_code
IsSubstring(p, s) ==
    \E n \in 0..(Len(s) - Len(p)) : SubSeq(s, n + 1, n + Len(p)) = p

GLOBAL == SubSeq(GLOBAL_IT, 1, 6)

\* h_code ILIKE '%pattern%'
ILike(h_code, pattern) ==
    h_code # NullName /\ IsSubstring(Lower(pattern), Lower(h_code))

\* s.sector_name IN ('Corporate/Shared Services', 'Global IT'): the sector
\* that holds the shared services only
SharedSectorName(sector) == sector = OtherSector

\* the shared services, with their h_code: the rows that have a sector
\* (JOIN sectors_dim) and its name or a h_code of a shared service
identify_shared_services(shared, own) ==
    LET ids == SelectSeq(AppSeq,
                   LAMBDA a : /\ shared[a].live
                              /\ own # NULL
                              /\ \/ SharedSectorName(own)
                                 \/ ILike(shared[a].h_code, PLATFORM)
                                 \/ ILike(shared[a].h_code, SHARED)
                                 \/ ILike(shared[a].h_code, GLOBAL))
    IN  [n \in 1..Len(ids) |-> <<ids[n], shared[ids[n]].h_code>>]

\* seed the rules and commit, identify the shared services, fetch the rules
APrepare ==
    /\ pc = "a_prepare"
    /\ db' = [db EXCEPT !.allocation_rules = seed_allocation_rules(@)]
    /\ cdb' = db'
    /\ shared_services' = identify_shared_services(db.shared, db.shared_sector)
    /\ active_rules' = IF shared_services' = <<>> THEN active_rules
                       ELSE db'.allocation_rules
    /\ i' = 1
    /\ pc' = IF shared_services' = <<>> THEN "a_report" ELSE "a_loop"
    /\ UNCHANGED <<k, rule, total_cost, sector_usage, active_sectors, half_up,
                   allocations_made, runs, written, applied, count, counts, reconvars, db0, failed, returncode, pipevars, scorervars>>

\* if h_code and service_code in h_code
RuleMatches(r, h_code) == ~Falsy(h_code) /\ IsSubstring(r.shared_service_code, h_code)

RuleForLast(rules, h_code) ==
    LET hits == {n \in 1..Len(rules) : RuleMatches(rules[n], h_code)}
    IN  IF hits = {} THEN NoRule
        ELSE rules[CHOOSE n \in hits : \A m \in hits : n >= m]

\* the rule the inner loop stops at (break), NoRule when it runs to its end
RuleFor(rules, h_code) ==
    LET hits == {n \in 1..Len(rules) : RuleMatches(rules[n], h_code)}
    IN  IF hits = {} THEN NoRule
        ELSE rules[CHOOSE n \in hits : \A m \in hits : n <= m]

CurS == shared_services[i]

KnownMethods == {"proportional_usage", "equal_split", "custom_formula"}

\* an exception leaves apply_allocation_rules
ARaise(kind) ==
    /\ failed' = [kind |-> kind, at |-> pc, n |-> i, k |-> k, a |-> NULL, b |-> NULL]
    /\ pc' = "a_except"

\* one iteration of the loop over shared_services up to the strategy call; a
\* matching rule whose method is none of the three assigns no count
ASelectRule ==
    /\ pc = "a_loop"
    /\ i <= Len(shared_services)
    /\ LET r == RuleFor(active_rules, CurS[2])
       IN  IF r = NoRule
           THEN /\ i' = i + 1
                /\ UNCHANGED <<pc, rule, applied, allocations_made, failed>>
           ELSE IF r.distribution_method \in KnownMethods
           THEN /\ rule' = [rule_id |-> r.rule_id,
                            distribution_method |-> r.distribution_method,
                            shared_service_code |-> r.shared_service_code]
                /\ applied' = Append(applied, <<CurS[1], r.rule_id>>)
                /\ pc' = "a_begin"
                /\ UNCHANGED <<i, allocations_made, failed>>
           ELSE IF count = NoCount
           THEN /\ ARaise("UnboundLocalError")
                /\ UNCHANGED <<i, rule, applied, allocations_made>>
           ELSE /\ allocations_made' = allocations_made + count
                /\ i' = i + 1
                /\ UNCHANGED <<pc, rule, applied, failed>>
    /\ UNCHANGED <<db, cdb, k, shared_services, active_rules, total_cost, sector_usage,
                   active_sectors, half_up, runs, written, count, counts, reconvars,
                   db0, returncode, pipevars, scorervars>>

SectorSeq == [n \in 1..MaxSectors |-> n]

\* SELECT a.sector_id, SUM(u.units_consumed) ... GROUP BY a.sector_id
IncludesOwnSector(sector, own) == TRUE

\* a.sector_id != (SELECT sector_id FROM applications_dim WHERE app_id = ...):
\* not true of any sector when the shared service has no sector
OtherThanOwn(sector, own) == own # NULL /\ sector # own

SectorUsage(sectors, own) ==
    LET ids == SelectSeq(SectorSeq,
                         LAMBDA s : sectors[s].usage # NoRows /\ OtherThanOwn(s, own))
    IN  [n \in 1..Len(ids) |-> <<ids[n], sectors[ids[n]].usage>>]

\* SELECT DISTINCT sector_id FROM applications_dim WHERE sector_id != ...
ActiveSectors(sectors, own) ==
    SelectSeq(SectorSeq, LAMBDA s : sectors[s].apps /\ OtherThanOwn(s, own))

RECURSIVE SumSeq(_)
SumSeq(q) == IF q = <<>> THEN 0 ELSE Head(q) + SumSeq(Tail(q))

TotalUsage(su) == SumSeq([n \in 1..Len(su) |-> su[n][2]])

\* the strategy returns n: count = n; allocations_made += count; break
AReturn(n) ==
    /\ count' = n
    /\ counts' = Append(counts, n)
    /\ allocations_made' = allocations_made + n
    /\ i' = i + 1
    /\ pc' = "a_loop"

ZeroUsageNeverSkips(total_usage) == FALSE

\* if total_usage == 0: return 0
ZeroUsageSkips(total_usage) == total_usage = 0

\* if len(active_sectors) == 0: return 0
NoSectorsSkips(sectors) == Len(sectors) = 0

\* the groups the strategy of the current rule writes for
Groups == IF rule.distribution_method = "equal_split" THEN active_sectors
          ELSE [n \in 1..Len(sector_usage) |-> sector_usage[n][1]]

\* the amount of group n before rounding, as <<numerator, denominator>>;
\* a denominator of 0 is a division by zero
Exact(method, cost, su, sectors, n) ==
    IF method = "proportional_usage"
    THEN <<cost * su[n][2], TotalUsage(su)>>
    ELSE IF method = "equal_split"
    THEN <<cost, Len(sectors)>>
    ELSE IF TotalUsage(su) > 0
         THEN <<4 * cost * su[n][2] * Len(sectors) + 6 * cost * TotalUsage(su),
                10 * TotalUsage(su) * Len(sectors)>>
         ELSE <<6 * cost, 10 * Len(sectors)>>

IsHalf(x) == x[2] # 0 /\ 2 * (x[1] % x[2]) = x[2]

\* round(amount, 2)
Rounded(x, up) ==
    (x[1] \div x[2]) + (IF 2 * (x[1] % x[2]) > x[2] \/ (IsHalf(x) /\ up) THEN 1 ELSE 0)

\* the two SELECTs of a strategy and its early returns
AStrategyBegin ==
    /\ pc = "a_begin"
    /\ LET method == rule.distribution_method
           cost == db.shared[CurS[1]].cost
           su == SectorUsage(db.sectors, db.shared_sector)
           sectors == IF method = "equal_split"
                      THEN ActiveSectors(db.sectors, db.shared_sector)
                      ELSE [n \in 1..Len(su) |-> su[n][1]]
       IN  /\ total_cost' = cost
           /\ written' = <<>>
           /\ IF cost = 0
              THEN AReturn(0) /\ UNCHANGED <<k, sector_usage, active_sectors, half_up, failed>>
              ELSE IF method = "proportional_usage" /\ ZeroUsageSkips(TotalUsage(su))
              THEN /\ AReturn(0) /\ sector_usage' = su
                   /\ UNCHANGED <<k, active_sectors, half_up, failed>>
              ELSE IF method = "equal_split" /\ NoSectorsSkips(sectors)
              THEN /\ AReturn(0) /\ active_sectors' = sectors
                   /\ UNCHANGED <<k, sector_usage, half_up, failed>>
              ELSE IF method = "equal_split" /\ Len(sectors) = 0
              THEN /\ ARaise("ZeroDivisionError")
                   /\ UNCHANGED <<i, k, sector_usage, active_sectors, half_up,
                                  allocations_made, count, counts>>
              ELSE /\ sector_usage' = IF method = "equal_split" THEN sector_usage ELSE su
                   /\ active_sectors' = sectors
                   /\ half_up' \in IF \E n \in 1..Len(sectors) :
                                         IsHalf(Exact(method, cost, su, sectors, n))
                                   THEN BOOLEAN ELSE {FALSE}
                   /\ k' = 1
                   /\ pc' = "a_insert"
                   /\ UNCHANGED <<i, allocations_made, failed, count, counts>>
    /\ UNCHANGED <<db, cdb, shared_services, active_rules, rule, runs, applied, reconvars,
                   db0, returncode, pipevars, scorervars>>

CycleOf(method) ==
    IF method = "proportional_usage" THEN "allocated_shared_service"
    ELSE IF method = "equal_split" THEN "allocated_equal_split"
    ELSE "allocated_custom_formula"

\* INSERT INTO chargeback_fact ... ON CONFLICT (month_start, app_id, sector_id)
\* DO UPDATE SET usd_amount = chargeback_fact.usd_amount + EXCLUDED.usd_amount
Upsert(cf, app, sector, amount, cycle) ==
    [cf EXCEPT ![app][sector] =
        IF @.present THEN [@ EXCEPT !.usd_amount = @ + amount]
        ELSE [present |-> TRUE, usd_amount |-> amount, chargeback_cycle |-> cycle]]

\* one iteration of the strategy's loop over the sectors
AInsert ==
    /\ pc = "a_insert"
    /\ k <= Len(Groups)
    /\ LET x == Exact(rule.distribution_method, total_cost, sector_usage, active_sectors, k)
       IN  IF x[2] = 0
           THEN /\ ARaise("ZeroDivisionError")
                /\ UNCHANGED <<db, k, written>>
           ELSE /\ db' = [db EXCEPT !.chargeback_fact =
                             Upsert(@, CurS[1], Groups[k], Rounded(x, half_up),
                                    CycleOf(rule.distribution_method))]
                /\ written' = Append(written, Rounded(x, half_up))
                /\ k' = k + 1
                /\ UNCHANGED <<pc, failed>>
    /\ UNCHANGED <<cdb, i, shared_services, active_rules, rule, total_cost, sector_usage,
                   active_sectors, half_up, allocations_made, runs, applied, count,
                   counts, reconvars, db0, returncode, pipevars, scorervars>>

\* the loop ends: conn.commit(); return the number of sectors written
AStrategyCommit ==
    /\ pc = "a_insert"
    /\ k > Len(Groups)
    /\ cdb' = db
    /\ AReturn(Len(Groups))
    /\ UNCHANGED <<db, k, shared_services, active_rules, rule, total_cost, sector_usage,
                   active_sectors, half_up, runs, written, applied, reconvars, db0,
                   failed, returncode, pipevars, scorervars>>

ALoopEnd ==
    /\ pc = "a_loop"
    /\ i > Len(shared_services)
    /\ pc' = "a_report"
    /\ UNCHANGED <<db, cdb, i, k, allocvars, reconvars, db0, failed, returncode, pipevars, scorervars>>

\* generate_allocation_report only reads; UPDATE etl_execution_log SET
\* status = 'success'; commit; close
ALogSuccess ==
    /\ pc = "a_report"
    /\ db' = [db EXCEPT !.etl = "success"]
    /\ cdb' = db'
    /\ pc' = "closed"
    /\ returncode' = 0
    /\ UNCHANGED <<i, k, allocvars, reconvars, db0, failed, pipevars, scorervars>>

\* the pipeline runs the engine again in the same month, costs and usage unchanged
ARunAgain ==
    /\ pc = "closed"
    /\ failed = NoFailure
    /\ runs \in Runs /\ runs + 1 \in Runs
    /\ runs' = runs + 1
    /\ pc' = "a_start"
    /\ returncode' = NoExit
    /\ UNCHANGED <<db, cdb, i, k, shared_services, active_rules, rule, total_cost,
                   sector_usage, active_sectors, half_up, allocations_made, written,
                   applied, count, counts, reconvars, db0, failed, pipevars, scorervars>>

\* rules an administrator has put in the table before the engine seeds it:
\* one with a method the engine has no strategy for, one with the pattern of
\* a seed rule and another method
RuleRow(name, method, code) ==
    [rule_id |-> 1, rule_name |-> name, distribution_method |-> method,
     shared_service_code |-> code]
RuleTables ==
    { <<>>,
      << RuleRow("Global - Fixed Amount", "fixed_amount", GLOBAL) >>,
      << RuleRow("Platform - Equal Split", "equal_split", PLATFORM) >> }

InitRules == InitAllocOver(RuleTables, {OtherSector}, {FALSE})

\* positions at which run_allocation sends statements to the store
ASqlPcs == {"a_start", "a_prepare", "a_begin", "a_insert", "a_report"}

\* a statement or a commit fails in the store; the transaction is aborted
AStmtFail ==
    /\ pc \in ASqlPcs
    /\ failed' = [kind |-> "raise",
                  at |-> IF pc = "a_insert" /\ k > Len(Groups) THEN "a_commit" ELSE pc,
                  n |-> i, k |-> k, a |-> NULL, b |-> NULL]
    /\ pc' = "a_except"
    /\ UNCHANGED <<db, cdb, i, k, allocvars, reconvars, db0, returncode, pipevars,
                   scorervars>>

PythonErrors == {"ZeroDivisionError", "UnboundLocalError"}

AHandlerCommitsWork ==
    IF cdb.etl = "running" THEN {[db EXCEPT !.etl = "failed"]} ELSE {cdb}

\* except Exception of run_allocation: UPDATE ... 'failed' and commit on the
\* same connection.  After an exception of the Python code the transaction
\* is open and the commit takes what it holds; after a failed statement the
\* store refuses the UPDATE; after a failed commit the UPDATE may go through.
AHandlerOutcomes ==
    IF cdb.etl # "running" THEN {cdb}
    ELSE IF failed.kind \in PythonErrors THEN {[db EXCEPT !.etl = "failed"]}
    ELSE IF failed.at \in {"a_prepare", "a_commit", "a_report"}
         THEN {cdb, [cdb EXCEPT !.etl = "failed"]}
    ELSE {cdb}

\* the handler, then finally: conn.close(); the script ends with status 0
AExceptHandler ==
    /\ pc = "a_except"
    /\ \E out \in AHandlerOutcomes : cdb' = out
    /\ db' = cdb'
    /\ pc' = "closed"
    /\ returncode' = 0
    /\ UNCHANGED <<i, k, allocvars, reconvars, db0, failed, pipevars, scorervars>>

NextAlloc ==
    \/ AStart \/ APrepare \/ ASelectRule \/ AStrategyBegin \/ AInsert
    \/ AStrategyCommit \/ ALoopEnd \/ ALogSuccess \/ ARunAgain
    \/ AStmtFail \/ AExceptHandler \/ Crash

SpecAlloc == InitAlloc /\ [][NextAlloc]_vars

\* run_allocation over other rules tables
SpecRules == InitRules /\ [][NextAlloc]_vars

(* ------------- main and run_etl_script (scripts/etl/run_pipeline.py) ---- *)
MAX_RETRIES == 3

\* how one subprocess.run of a script ends: it returns, or raises; stderr of a
\* CalledProcessError mentions timeout/connection/network/temporary or not
AttemptOutcomes ==
    {[kind |-> "ok", is_transient |-> FALSE],
     [kind |-> "TimeoutExpired", is_transient |-> FALSE],
     [kind |-> "CalledProcessError", is_transient |-> TRUE],
     [kind |-> "CalledProcessError", is_transient |-> FALSE],
     [kind |-> "FileNotFoundError", is_transient |-> FALSE],
     [kind |-> "Exception", is_transient |-> FALSE]}

Step(script, critical, max_retries) ==
    [script |-> script, critical |-> critical, max_retries |-> max_retries]

\* the list main builds
PipelineSteps(e) ==
    << Step("appd_extract.py", TRUE, 2) >>
    \o (IF e.has_servicenow THEN << Step("snow_enrichment.py", FALSE, 2) >> ELSE <<>>)
    \o << Step("appd_finalize.py", TRUE, 1), Step("chargeback_calculation.py", TRUE, 1) >>
    \o (IF e.has_servicenow THEN << Step("allocation_engine.py", FALSE, 1) >> ELSE <<>>)
    \o (IF e.forecasting THEN << Step("advanced_forecasting.py", FALSE, 1) >> ELSE <<>>)
    \o (IF e.refresh_views THEN << Step("refresh_views.py", FALSE, 1) >> ELSE <<>>)

Envs == [creds_valid : BOOLEAN, has_servicenow : BOOLEAN, forecasting : BOOLEAN,
         refresh_views : BOOLEAN]

InitPipeline ==
    /\ env \in Envs
    /\ pipeline_steps = <<>>
    /\ results = <<>>
    /\ attempts = <<>>
    /\ returned = <<>>
    /\ exit_code = NoExit
    /\ pc = "p_start"
    /\ i = 1
    /\ k = 1
    /\ EnginesIdle
    /\ ScorerIdle

\* validate_credentials, sys.exit(1) without them, else the list of steps
PStart ==
    /\ pc = "p_start"
    /\ IF ~env.creds_valid
       THEN /\ exit_code' = 1
            /\ pc' = "p_exit"
            /\ UNCHANGED pipeline_steps
       ELSE /\ pipeline_steps' = PipelineSteps(env)
            /\ pc' = "p_attempt"
            /\ UNCHANGED exit_code
    /\ i' = 1
    /\ k' = 1
    /\ UNCHANGED <<db, cdb, appd_apps, snow_services, best_match, best_score,
                   matches_made, fkImmediate, db0, merged, failed, allocvars,
                   returncode, env, results, attempts, returned, scorervars>>

CurStep == pipeline_steps[i]

\* the conditions under which an attempt that raised is followed by another
Retries(outcome, attempt, critical, max_retries) ==
    /\ attempt < max_retries
    /\ ~critical
    /\ \/ outcome.kind = "TimeoutExpired"
       \/ outcome.kind = "CalledProcessError" /\ outcome.is_transient
       \/ outcome.kind = "Exception"

\* one pass of the loop `for attempt in range(1, max_retries + 1)' of
\* run_etl_script, or its end: return False
RunAttempt ==
    /\ pc = "p_attempt"
    /\ IF k > CurStep.max_retries
       THEN /\ returned' = Append(returned, <<CurStep.script, FALSE>>)
            /\ pc' = "p_returned"
            /\ UNCHANGED <<attempts, k>>
       ELSE \E outcome \in AttemptOutcomes :
            /\ attempts' = Append(attempts, <<CurStep.script, outcome>>)
            /\ IF outcome.kind = "ok"
               THEN /\ returned' = Append(returned, <<CurStep.script, TRUE>>)
                    /\ pc' = "p_returned"
                    /\ UNCHANGED k
               ELSE IF Retries(outcome, k, CurStep.critical, CurStep.max_retries)
               THEN /\ k' = k + 1
                    /\ UNCHANGED <<pc, returned>>
               ELSE /\ returned' = Append(returned, <<CurStep.script, FALSE>>)
                    /\ pc' = "p_returned"
                    /\ UNCHANGED k
    /\ UNCHANGED <<db, cdb, appd_apps, snow_services, i, best_match, best_score,
                   matches_made, fkImmediate, db0, merged, failed, allocvars,
                   returncode, env, pipeline_steps, results, exit_code, scorervars>>

StopsOnAnyFailure(step, success) == ~success

\* if not success and step['critical']
StopsPipeline(step, success) == ~success /\ step.critical

Tri(b) == IF b THEN "True" ELSE "False"

\* results.append; sys.exit(1) after a critical failure, else the next step
PStepDone ==
    /\ pc = "p_returned"
    /\ LET success == returned[Len(returned)][2]
       IN  /\ results' = Append(results, <<CurStep.script, Tri(success)>>)
           /\ IF StopsPipeline(CurStep, success)
              THEN /\ exit_code' = 1
                   /\ pc' = "p_exit"
                   /\ UNCHANGED <<i, k>>
              ELSE /\ i' = i + 1
                   /\ k' = 1
                   /\ pc' = IF i = Len(pipeline_steps) THEN "p_validate" ELSE "p_attempt"
                   /\ UNCHANGED exit_code
    /\ UNCHANGED <<db, cdb, appd_apps, snow_services, best_match, best_score,
                   matches_made, fkImmediate, db0, merged, failed, allocvars,
                   returncode, env, pipeline_steps, attempts, returned, scorervars>>

\* validate_pipeline(): done, not importable (None) or raising
PValidate ==
    /\ pc = "p_validate"
    /\ \E v \in {"True", "None", "False"} :
          results' = Append(results, <<"Data Validation", v>>)
    /\ pc' = "p_summary"
    /\ UNCHANGED <<db, cdb, appd_apps, snow_services, i, best_match, best_score, k,
                   matches_made, fkImmediate, db0, merged, failed, allocvars,
                   returncode, env, pipeline_steps, attempts, returned, exit_code,
                   scorervars>>

Count(rs, v) == Cardinality({n \in 1..Len(rs) : rs[n][2] = v})

\* the exit status main chooses from the counts
SummaryExit(rs) ==
    LET success_count == Count(rs, "True")
        failed_count == Count(rs, "False")
        total_count == Len(rs)
    IN  IF success_count = total_count THEN 0
        ELSE IF failed_count = 0 THEN 0
        ELSE IF success_count >= total_count - failed_count THEN 0
        ELSE 1

PSummary ==
    /\ pc = "p_summary"
    /\ exit_code' = SummaryExit(results)
    /\ pc' = "p_exit"
    /\ UNCHANGED <<db, cdb, appd_apps, snow_services, i, best_match, best_score, k,
                   matches_made, fkImmediate, db0, merged, failed, allocvars,
                   returncode, env, pipeline_steps, results, attempts, returned,
                   scorervars>>

NextPipeline == PStart \/ RunAttempt \/ PStepDone \/ PValidate \/ PSummary

SpecPipeline == InitPipeline /\ [][NextPipeline]_vars

\* one call of run_etl_script, of any script, with any arguments
InitScript ==
    /\ env = NoEnv
    /\ \E critical \in BOOLEAN, max_retries \in 0..MAX_RETRIES :
          pipeline_steps = << Step("script.py", critical, max_retries) >>
    /\ results = <<>>
    /\ attempts = <<>>
    /\ returned = <<>>
    /\ exit_code = NoExit
    /\ pc = "p_attempt"
    /\ i = 1
    /\ k = 1
    /\ EnginesIdle
    /\ ScorerIdle

NextScript == RunAttempt

SpecScript == InitScript /\ [][NextScript]_vars

(* ------------------------------ properties ----------------------------- *)
Running == pc \notin {"except", "b_finally", "closed", "crashed"}
Raised == failed.kind \in {"raise", "refused"}
PassDone == pc \in {"commit", "report", "logok"} \/ (pc = "closed" /\ failed = NoFailure)
UniqueSid(apps) ==
    \A x, y \in Live(apps) : (x # y /\ apps[x].sid # NULL) => apps[x].sid # apps[y].sid
UniqueAid(apps) ==
    \A x, y \in Live(apps) : (x # y /\ apps[x].aid # NULL) => apps[x].aid # apps[y].aid
DistinctDonors ==
    \A m, n \in 1..Len(merged) : m # n => merged[m][2] # merged[n][2]

\* C1: after a reconciliation pass no two live rows hold the same non-null
\* sn_sys_id, and no ServiceNow row was consumed by two merges of the pass.
C1_NoDoubleClaim ==
    PassDone => UniqueSid(db.apps) /\ UniqueSid(cdb.apps) /\ DistinctDonors

\* two merges of one pass, completed and committed
C1_Witness == pc = "closed" /\ failed = NoFailure /\ Len(merged) = 2

\* C2: when a statement of a merge fails, the committed catalog, fact tables
\* and audit log are those of before the run: both rows of the pair exist
\* unchanged and no fact row is re-homed.
C2_FailedMergePersistsNothing ==
    (Raised /\ failed.at \in MergePcs) =>
        /\ cdb.apps = db0.apps
        /\ cdb.facts = db0.facts
        /\ cdb.log = db0.log
        /\ cdb.apps[failed.a].live /\ cdb.apps[failed.b].live

\* the second re-homing UPDATE failed, after the donor row with fact rows was deleted
C2_Witness ==
    /\ pc = "closed" /\ Raised
    /\ failed.at = "rehome" /\ failed.k = 2
    /\ Referenced(db0.facts, failed.b)

\* some merge is applied in part in store c: fact rows moved while the donor
\* row lives, the donor row gone while fact rows reference it, or the
\* ServiceNow columns copied while the donor row lives
PartialMerge(c) ==
    \E a, b \in AppIds :
        /\ c.apps # db0.apps \/ c.facts # db0.facts
        /\ a # b /\ db0.apps[a].live /\ db0.apps[b].live
        /\ \/ /\ c.apps[b].live
              /\ \E t \in 1..Len(Tables) : \E r \in AppIds :
                    db0.facts[t][r] = b /\ c.facts[t][r] = a
           \/ ~c.apps[b].live /\ Referenced(c.facts, b)
           \/ /\ c.apps[b].live
              /\ c.apps[a] # db0.apps[a]
              /\ c.apps[a].org = db0.apps[b].org

\* C3: whatever the point of a crash, the committed store holds no merge
\* applied in part.
C3_NoPartialMergeCommitted == ~PartialMerge(cdb)

\* a crash between the DELETE of a referenced donor row and the last re-homing UPDATE
C3_Witness ==
    /\ pc = "crashed" /\ failed.at = "rehome"
    /\ Referenced(db0.facts, failed.b)

RehomedIn(c, a, b) ==
    /\ ~Referenced(c.facts, b)
    /\ \A t \in 1..Len(Tables) : \A r \in AppIds :
          db0.facts[t][r] = b => c.facts[t][r] = a

\* C4: once a merge is complete no fact row references the removed row and
\* every fact row that referenced it references the surviving row, in the
\* transaction and, whenever the removal is committed, in the committed store.
C4_MergeRehomesFacts ==
    \A n \in 1..Len(merged) :
        LET a == merged[n][1]
            b == merged[n][2]
        IN  /\ Running => RehomedIn(db, a, b)
            /\ ~cdb.apps[b].live => RehomedIn(cdb, a, b)

\* a committed merge whose removed row had fact rows
C4_Witness ==
    /\ pc = "closed" /\ failed = NoFailure
    /\ \E n \in 1..Len(merged) : Referenced(db0.facts, merged[n][2])

\* C5: the Conflict Guard reports a conflict only if a live row other than
\* the candidate's own row holds the candidate's sn_sys_id; otherwise the
\* pair is merged.
C5_GuardClearsUnclaimed ==
    pc = "conflict" =>
        \E id \in Live(db.apps) \ {best_match.id} : db.apps[id].sid = best_match.sid

Outcomes == {"auto_matched", "needs_review", "conflict", "no_match"}

\* C8: every processed AppD row appends exactly one record whose outcome is
\* auto_matched, needs_review, conflict or no_match, and earlier records stay.
C8_OneRecordPerEntity ==
    pc = "loop" =>
        /\ Len(db.log) = Len(db0.log) + (i - 1)
        /\ \A n \in 1..Len(db.log) : db.log[n].status \in Outcomes
        /\ SubSeq(db.log, 1, Len(db0.log)) = db0.log

\* C10: between entities, and after the pass, the number of live rows is the
\* number before the run minus matches_made; classification, guard, conflict
\* and review leave it unchanged.
C10_CountDropsByMerges ==
    /\ pc \in {"loop", "guard", "conflict", "review", "upd", "commit", "report", "logok"} =>
          Cardinality(Live(db.apps)) = Cardinality(Live(db0.apps)) - matches_made
    /\ (pc \in {"report", "logok"} \/ (pc = "closed" /\ failed = NoFailure)) =>
          Cardinality(Live(cdb.apps)) = Cardinality(Live(db0.apps)) - matches_made

\* a committed pass with one merge and one entity left for review or in conflict
C10_Witness ==
    /\ pc = "closed" /\ failed = NoFailure /\ matches_made = 1
    /\ \E n \in 1..Len(cdb.log) : cdb.log[n].status \in {"needs_review", "conflict"}

Matched(r) == r.live /\ r.aid # NULL /\ r.sid # NULL

\* what a step may do to the catalog `old' on its way to `new'
KeepsMatched(old, new) ==
    \A id \in AppIds :
        /\ Matched(old[id]) =>
              /\ new[id].live
              /\ new[id].aid = old[id].aid
              /\ new[id].sid = old[id].sid
        /\ (old[id].live /\ new[id].live) =>
              /\ old[id].aid # NULL => new[id].aid = old[id].aid
              /\ old[id].sid # NULL => new[id].sid = old[id].sid
        /\ (old[id].live /\ ~new[id].live) => ~Matched(old[id])

\* C11: no step of a pass deletes a row that holds both ids or changes one of
\* its ids, no step sets a non-null id of a live row to another value or to
\* NULL, and a deleted row never holds both ids; in the transaction and in
\* the committed store.
C11_MatchedRowsStay ==
    [][KeepsMatched(db.apps, db'.apps) /\ KeepsMatched(cdb.apps, cdb'.apps)]_vars

\* a committed pass with a merge next to a row that held both ids before it
C11_Witness ==
    /\ pc = "closed" /\ failed = NoFailure /\ Len(merged) >= 1
    /\ Matched(db0.apps[MSlot]) /\ cdb.apps[MSlot] = db0.apps[MSlot]
    /\ ~cdb.apps[merged[1][2]].live

\* C12: the step that classifies a best score s goes to the guard (auto_match)
\* exactly when s >= 80, to the review record exactly when 50 <= s < 80, and
\* on to the next entity, writing nothing, exactly when s < 50.
C12_OneClassPerScore ==
    [][(pc = "loop" /\ i <= Len(appd_apps) /\ pc' \in {"guard", "review", "loop"}) =>
          /\ pc' = "guard" <=> best_score' >= 8000
          /\ pc' = "review" <=> (best_score' >= 5000 /\ best_score' < 8000)
          /\ pc' = "loop" <=> best_score' < 5000
          /\ pc' = "loop" => (i' = i + 1 /\ db' = db)
      ]_vars

\* one pass classified a score of exactly 80 as a match and one of exactly 50
\* for review
C12_Witness ==
    \E m, n \in 1..Len(db.log) :
        /\ db.log[m].score = 8000 /\ db.log[m].status = "auto_matched"
        /\ db.log[n].score = 5000 /\ db.log[n].status = "needs_review"

\* the positions of the candidates with the highest score for name
Highest(name, services) ==
    {n \in 1..Len(services) :
        \A m \in 1..Len(services) :
            fuzzy_match_score(name, services[n].sname) >=
                fuzzy_match_score(name, services[m].sname)}
FirstHighest(name, services) ==
    services[CHOOSE n \in Highest(name, services) : \A m \in Highest(name, services) : n <= m]
MatchStep == pc = "loop" /\ i <= Len(appd_apps) /\ pc' \in {"guard", "review", "loop"}

\* C13 as stated: the matcher selects the first candidate with the highest
\* score, none exactly when the working list is empty, and leaves the list
\* as it was.
C13_SelectsFirstHighest ==
    [][MatchStep =>
          /\ best_match' = IF snow_services = <<>> THEN NoMatch
                            ELSE FirstHighest(CurA[2], snow_services)
          /\ snow_services' = snow_services
      ]_vars

\* C13 amended: the matcher selects the first candidate with the highest
\* score when that score is above 0, none when the list is empty or no
\* candidate scores above 0, and leaves the list as it was.
C13_SelectsFirstHighestAboveZero ==
    [][MatchStep =>
          /\ best_match' =
                IF snow_services = <<>> THEN NoMatch
                ELSE IF fuzzy_match_score(CurA[2], FirstHighest(CurA[2], snow_services).sname) = 0
                     THEN NoMatch
                     ELSE FirstHighest(CurA[2], snow_services)
          /\ best_score' = IF best_match' = NoMatch THEN 0
                            ELSE fuzzy_match_score(CurA[2], best_match'.sname)
          /\ snow_services' = snow_services
      ]_vars

\* two candidates with different names tie at the highest score and the
\* first of them was selected
C13_Witness ==
    /\ pc = "guard"
    /\ \E m, n \in 1..Len(snow_services) :
          /\ m < n /\ best_match = snow_services[m]
          /\ snow_services[m].sname # snow_services[n].sname
          /\ fuzzy_match_score(CurA[2], snow_services[n].sname) = best_score

\* the step that ends the processing of the current entity, by outcome
LastStatus(log) == IF log = <<>> THEN "none" ELSE log[Len(log)].status
OutcomeOfStep ==
    {o \in {"MERGED", "REVIEW", "CONFLICT", "UNMATCHED"} :
        \/ /\ o = "MERGED"
           /\ merged' = Append(merged, <<CurA[1], best_match.id>>)
           /\ Len(db'.log) = Len(db.log) + 1 /\ LastStatus(db'.log) = "auto_matched"
        \/ /\ o = "REVIEW" /\ merged' = merged /\ db'.apps = db.apps
           /\ Len(db'.log) = Len(db.log) + 1 /\ LastStatus(db'.log) = "needs_review"
        \/ /\ o = "CONFLICT" /\ merged' = merged /\ db'.apps = db.apps
           /\ Len(db'.log) = Len(db.log) + 1 /\ LastStatus(db'.log) = "conflict"
        \/ /\ o = "UNMATCHED" /\ merged' = merged /\ db' = db}

\* each entity is taken up once, in order, and leaves with one outcome
C14_OneOutcomePerStep ==
    [][i' # i => /\ i' = i + 1 /\ i <= Len(appd_apps)
                 /\ Cardinality(OutcomeOfStep) = 1]_vars

\* C14: each fetched AppD row is processed once, in order, and leaves with
\* exactly one of the outcomes MERGED, REVIEW, CONFLICT, UNMATCHED; when the
\* run has ended every fetched row has had its outcome.
C14_EveryEntityOnceToTheEnd ==
    /\ C14_OneOutcomePerStep
    /\ [](pc = "closed" => i = Len(appd_apps) + 1)

\* C15: after the report of a pass that fetched AppD rows, a match rate of
\* the summary is the number of AppD rows merged in the pass divided by the
\* number of AppD rows the pass processed.
C15_RateIsMergedOverEntities ==
    (pc = "logok" /\ appd_apps # <<>>) =>
        LET summary == generate_reconciliation_report(db.apps)
            rate == Rate(matches_made, Len(appd_apps))
        IN  summary.match_rate = rate \/ summary.appd_match_rate = rate

Abs(x) == IF x < 0 THEN 0 - x ELSE x
StrategyReturned == pc = "a_loop" /\ written # <<>>

\* C16: when a strategy has written amounts for a shared service of total
\* cost > 0, their sum is the total cost within one cent per group written.
C16_WrittenSumIsTotal ==
    StrategyReturned => Abs(SumSeq(written) - total_cost) <= Len(written)

\* the same for the strategies other than custom_formula on usage that is all zero
C16_SumIsTotalButCustomOnZeroUsage ==
    (StrategyReturned /\ ~(rule.distribution_method = "custom_formula"
                            /\ TotalUsage(sector_usage) = 0)) =>
        Abs(SumSeq(written) - total_cost) <= Len(written)

C16_RoundingSeen ==
    StrategyReturned /\ SumSeq(written) # total_cost
        /\ Abs(SumSeq(written) - total_cost) <= Len(written)

Records(cf, app) == {sec \in Sectors : cf[app][sec].present}
StoredSum(cf, app) == SumSeq([n \in 1..MaxSectors |-> cf[app][n].usd_amount])
RunCompleted == pc = "closed" /\ runs >= 1 /\ failed = NoFailure

\* C17: after every completed run of a month, for a shared service without
\* records before the first run, the stored amounts of its consumer groups
\* sum to no more than its total cost plus one cent per record: they do not
\* grow with the number of runs.
C17_StoredSumDoesNotGrow ==
    RunCompleted =>
        \A app \in SharedApps :
            Records(db0.chargeback_fact, app) = {} =>
                StoredSum(cdb.chargeback_fact, app)
                    <= cdb.shared[app].cost + Cardinality(Records(cdb.chargeback_fact, app))

\* the same after the first run alone
C17_FirstRunWithinTotal ==
    (RunCompleted /\ runs = 1) =>
        \A app \in SharedApps :
            Records(db0.chargeback_fact, app) = {} =>
                StoredSum(cdb.chargeback_fact, app)
                    <= cdb.shared[app].cost + Cardinality(Records(cdb.chargeback_fact, app))

WriteStep == pc = "a_insert" /\ written' # written
NewAmount == written'[Len(written')]
OtherKeysKept ==
    \A app \in SharedApps : \A sec \in Sectors :
        (app # CurS[1] \/ sec # Groups[k]) =>
            db'.chargeback_fact[app][sec] = db.chargeback_fact[app][sec]

\* C18: a write for a key without a record inserts the record with the new
\* amount and the cycle of the strategy; a write for a key with a record sets
\* the amount to the stored amount plus the new one and the cycle to the
\* cycle of the strategy; no other record changes.
C18_InsertOrAccumulate ==
    [][WriteStep =>
          LET old == db.chargeback_fact[CurS[1]][Groups[k]]
              new == db'.chargeback_fact[CurS[1]][Groups[k]]
          IN  /\ new.present
              /\ new.usd_amount = (IF old.present THEN old.usd_amount ELSE 0) + NewAmount
              /\ new.chargeback_cycle = CycleOf(rule.distribution_method)
              /\ OtherKeysKept
      ]_vars

\* the same, the cycle of a record that exists left aside
C18_InsertOrAddAmount ==
    [][WriteStep =>
          LET old == db.chargeback_fact[CurS[1]][Groups[k]]
              new == db'.chargeback_fact[CurS[1]][Groups[k]]
          IN  /\ new.present
              /\ new.usd_amount = (IF old.present THEN old.usd_amount ELSE 0) + NewAmount
              /\ ~old.present => new.chargeback_cycle = CycleOf(rule.distribution_method)
              /\ old.present => new.chargeback_cycle = old.chargeback_cycle
              /\ OtherKeysKept
      ]_vars

\* the step is one of the engine, not a failure of the store or of the process
EngineStep == failed'.kind \notin {"raise", "crash"}

\* the strategy call returned 0 and left the store and the run as they were
ReturnedNothing ==
    /\ pc' = "a_loop" /\ i' = i + 1
    /\ db' = db /\ cdb' = cdb
    /\ allocations_made' = allocations_made
    /\ written' = <<>>
    /\ failed' = NoFailure

Hits(h) ==
    {n \in 1..Len(active_rules) :
        h # NullName /\ h # <<>> /\ IsSubstring(active_rules[n].shared_service_code, h)}
FirstHit(h) == CHOOSE n \in Hits(h) : \A m \in Hits(h) : n <= m

\* C20: for each shared service the selector applies the first fetched rule
\* whose pattern is found in the h_code, and that rule only; a service whose
\* h_code holds no pattern or is absent is passed over: nothing is written,
\* nothing is raised and the loop goes on to the next service.
C20_FirstMatchingRuleOnly ==
    /\ [][(pc = "a_loop" /\ i <= Len(shared_services) /\ EngineStep) =>
             IF Hits(CurS[2]) = {}
             THEN /\ pc' = "a_loop" /\ i' = i + 1
                  /\ db' = db /\ cdb' = cdb /\ applied' = applied
                  /\ allocations_made' = allocations_made
                  /\ failed' = NoFailure
             ELSE /\ pc' = "a_begin" /\ i' = i
                  /\ rule'.rule_id = FirstHit(CurS[2])
                  /\ rule'.distribution_method =
                        active_rules[FirstHit(CurS[2])].distribution_method
                  /\ applied' = Append(applied, <<CurS[1], FirstHit(CurS[2])>>)
         ]_vars
    /\ [](\A m, n \in 1..Len(applied) : m # n => applied[m][1] # applied[n][1])
    /\ [][WriteStep =>
             db'.chargeback_fact[CurS[1]][Groups[k]].chargeback_cycle \in
                 {db.chargeback_fact[CurS[1]][Groups[k]].chargeback_cycle,
                  CycleOf(active_rules[FirstHit(CurS[2])].distribution_method)}
         ]_vars

\* a completed run over a service whose h_code holds the patterns of the
\* first and the third rule, which got the first, and a service without
\* h_code, which was passed over
C20_Witness ==
    /\ pc = "closed" /\ failed = NoFailure /\ cdb.etl = "success"
    /\ Len(shared_services) = 2
    /\ Hits(shared_services[1][2]) = {1, 3}
    /\ shared_services[2][2] = NullName
    /\ applied = << <<1, 1>> >>

\* C21: when equal_split_allocation has written the amounts of a shared
\* service, the amounts sum exactly to its total cost: a cent that the equal
\* shares leave over is given to one of the groups.
C21_EqualSplitSumsExactly ==
    (StrategyReturned /\ rule.distribution_method = "equal_split") =>
        SumSeq(written) = total_cost

\* C22: a run that committed its 'running' execution-log row and then
\* failed (an exception reached the handler of the run) has, once the
\* connection is closed, that row committed with status 'failed'.
C22_FailedRunEndsFailed ==
    (pc = "closed" /\ Raised /\ cdb.etl # "none") => cdb.etl = "failed"

\* C23: a run that failed (an exception reached the handler of the run)
\* ends its process with a status other than 0, which is what the caller of
\* the script sees.
C23_FailedRunExitsNonZero ==
    (pc = "closed" /\ Raised) => returncode # 0

\* C24: the score of two strings does not depend on their order.
C24_ScoreIsSymmetric ==
    (score12 # NoScore /\ score21 # NoScore) => score12 = score21

StepFailed == pc = "p_returned" /\ ~returned[Len(returned)][2]
LastResult == results[Len(results)]

\* C26: main runs the steps in the order of its list, one script after the
\* other; after a critical step failed it runs nothing more and exits with
\* status 1; after a non-critical step failed it goes on to the next step,
\* so that main ends either on a failed critical step or with a result for
\* every step.
C26_OrderAndCriticalStop ==
    /\ [](\A n \in 1..Len(results) :
            n <= Len(pipeline_steps) => results[n][1] = pipeline_steps[n].script)
    /\ [][attempts' # attempts =>
             /\ attempts'[Len(attempts')][1] = pipeline_steps[i].script
             /\ Len(results) = i - 1]_vars
    /\ [][(StepFailed /\ CurStep.critical) =>
             (pc' = "p_exit" /\ exit_code' = 1 /\ attempts' = attempts)]_vars
    /\ [][pc # "p_exit"]_vars
    /\ [][(StepFailed /\ ~CurStep.critical) =>
             /\ exit_code' = NoExit
             /\ i' = i + 1
             /\ pc' = IF i < Len(pipeline_steps) THEN "p_attempt" ELSE "p_validate"]_vars
    /\ []((pc = "p_exit" /\ env.creds_valid) =>
            \/ Len(results) = Len(pipeline_steps) + 1
            \/ /\ Len(results) <= Len(pipeline_steps)
               /\ LastResult[2] = "False"
               /\ pipeline_steps[Len(results)].critical
               /\ exit_code = 1)

\* main has exited with 1 on the failure of appd_finalize.py, having run it
\* after snow_enrichment.py failed, and without running the four steps left
C26_Witness ==
    /\ pc = "p_exit" /\ exit_code = 1
    /\ Len(pipeline_steps) = 7
    /\ results = << <<"appd_extract.py", "True">>, <<"snow_enrichment.py", "False">>,
                    <<"appd_finalize.py", "False">> >>
    /\ attempts[Len(attempts)][1] = "appd_finalize.py"

Transient(outcome) ==
    \/ outcome.kind = "TimeoutExpired"
    \/ outcome.kind = "CalledProcessError" /\ outcome.is_transient
Succeeded == \E n \in 1..Len(attempts) : attempts[n][2].kind = "ok"
RetriedToTheEnd ==
    LET n == Len(attempts)
    IN  /\ n <= CurStep.max_retries
        /\ \A m \in 1..(n - 1) : attempts[m][2].kind # "ok"
        /\ returned[1][2] <=> Succeeded
        /\ (~Succeeded /\ n < CurStep.max_retries) => ~Transient(attempts[n][2])

\* C27: when run_etl_script has returned it has made at most max_retries
\* attempts, none after an attempt that succeeded, it returned True iff an
\* attempt succeeded, and it gave up before max_retries attempts only on an
\* attempt whose failure was not transient.
C27_RetriesTransientUpToMax ==
    pc = "p_returned" => RetriedToTheEnd

\* the same for scripts that are not critical
C27_RetriesWhenNotCritical ==
    (pc = "p_returned" /\ ~CurStep.critical) => RetriedToTheEnd

\* C28: no strategy writes a record for the sector of the shared service
\* itself (a service without sector gets no record at all), and no step of
\* an allocation run changes the record of a shared service under the
\* sector calculate_direct_chargebacks files its 'direct' row under.
C28_OwnSectorNeverWritten ==
    /\ [][WriteStep => (db.shared_sector # NULL /\ Groups[k] # db.shared_sector)]_vars
    /\ [][\A app \in SharedApps :
             DirectSector(db.shared_sector) \in Sectors =>
                 db'.chargeback_fact[app][DirectSector(db.shared_sector)]
                     = db.chargeback_fact[app][DirectSector(db.shared_sector)]
         ]_vars

\* a completed run that has allocated the cost of shared service 1, of
\* sector 1, to sector 2, the 'direct' row of the service still as it was
C28_Witness ==
    /\ RunCompleted /\ cdb.shared_sector = 1
    /\ cdb.chargeback_fact[1][1] = DirectRow
    /\ cdb.chargeback_fact[1][2].present
    /\ cdb.chargeback_fact[1][2].usd_amount = cdb.shared[1].cost

\* C29: in a run no shared service gets more than one strategy call, no
\* key (shared service, sector) is written twice, and allocations_made is
\* the sum of what the strategy calls of the run returned.
C29_OneRuleOneWriteExactTotal ==
    /\ [](\A m, n \in 1..Len(applied) : m # n => applied[m][1] # applied[n][1])
    /\ [][WriteStep =>
             /\ \A j \in 1..(k - 1) : Groups[j] # Groups[k]
             /\ \A m \in 1..(Len(applied) - 1) : applied[m][1] # CurS[1]]_vars
    /\ [](pc \in {"a_loop", "a_begin", "a_insert", "a_report"} =>
             allocations_made = SumSeq(counts))

\* C30: the allocation of one shared service is all or nothing: while a
\* strategy is in its loop only its own commit changes what the store has
\* committed, and once it has failed after writing the rows of some sectors,
\* no later step of the run, the error handler of run_allocation included,
\* commits a chargeback row of that service.
FailedAfterWrites == failed.kind # "none" /\ failed.at = "a_insert" /\ failed.k > 1
C30_AllOrNothing ==
    [][/\ (pc = "a_insert" /\ pc' # "a_loop" =>
              cdb'.chargeback_fact = cdb.chargeback_fact)
       /\ (FailedAfterWrites =>
              cdb'.chargeback_fact[shared_services[failed.n][1]] =
                  cdb.chargeback_fact[shared_services[failed.n][1]])]_vars
C30_Witness ==
    /\ pc = "closed" /\ FailedAfterWrites /\ failed.kind = "raise"
    /\ Len(written) > 0

====
